---- MODULE Spec2Model ----
(***************************************************************************)
(* A model of the local-CSF pipeline (neuroprismlab/local_csf_pipeline):   *)
(* the stage functions of src/utils (resample, binarize, dilate, derive    *)
(* the local mask, ...) as operators over small volumes, and the driver    *)
(* of src/pipeline.py as a state machine, one process per subject.         *)
(*                                                                         *)
(* Voxel values and thresholds are fixed-point numbers in hundredths:      *)
(* Fx(29, 90) is 29.9, Fx(0, 30) is 0.3, Fx(1, 0) is 1.  The comparisons   *)
(* and the multiplication by 100 of the source are exact on them; the      *)
(* rounding of IEEE doubles is outside the model.                          *)
(***************************************************************************)
EXTENDS Integers, Sequences, FiniteSets, TLC

VARIABLES
    args,     \* the inputs of the stage function under check
    ret,      \* what its first call returned (or raised)
    ret2,     \* what a second call, on the first call's output, returned
    disk,     \* the file at save_path
    pc,       \* driver: per subject, the run_* step of __main__ it is in
    cursor,   \* driver: per subject, the position in the step's loops
    roi_dir,  \* driver: the ROI files present under ROI_DIR
    dirs,     \* driver: the output directories created so far
    files,    \* driver: the output files written so far, with their writers
    calls,    \* driver: the stage calls made so far, with paths read and save_path
    hist      \* driver: per subject, the stage calls that ran to their end, in order

fnVars == <<args, ret, ret2, disk>>
drvVars == <<pc, cursor, roi_dir, dirs, files, calls, hist>>
vars == <<args, ret, ret2, disk, pc, cursor, roi_dir, dirs, files, calls, hist>>

----------------------------------------------------------------------------
(* Bounds of the model. *)

\* voxels along x of the volumes given to binarize (shape BinVox x 1 x 1)
BinVox == 3
\* voxels along x of the volumes given to derive (shape LocVox x 1 x 1)
LocVox == 2
\* voxels along x of the masks given to dilate (shape DilX x 2 x 2)
DilX == 2
\* largest iteration count given to dilate
MaxIter == 3

----------------------------------------------------------------------------
(* Fixed-point values, volumes and grids. *)

Fx(units, hundredths) == units * 100 + hundredths

One == Fx(1, 0)

Voxels(shape) == (1..shape[1]) \X (1..shape[2]) \X (1..shape[3])

NoFile == [exists |-> FALSE]

Vol(shape, affine, data) ==
    [exists |-> TRUE, shape |-> shape, affine |-> affine, data |-> data]

VolumesOn(shape, affines, values) ==
    {Vol(shape, a, d) : a \in affines, d \in [Voxels(shape) -> values]}

Affines == {"A", "B"}

SameGrid(v, w) == v.shape = w.shape /\ v.affine = w.affine

NoCall == [outcome |-> "none"]

Raise(err) == [outcome |-> err, value |-> NoFile, saved |-> NoFile]

\* a call that returns `v`, after writing it to save_path when one is given
Return(v, save_path) ==
    [outcome |-> "ok", value |-> v, saved |-> IF save_path THEN v ELSE NoFile]

RECURSIVE MaxOver(_, _)
MaxOver(d, S) ==
    IF S = {} THEN 0
    ELSE LET v == CHOOSE x \in S : TRUE
             m == MaxOver(d, S \ {v})
         IN  IF S = {v} THEN d[v] ELSE IF d[v] > m THEN d[v] ELSE m

\* np.max(arr)
NpMax(d) == MaxOver(d, DOMAIN d)

\* np.sum(arr) of a 0/1 array, in voxels
NpSum01(d) == Cardinality({v \in DOMAIN d : d[v] # 0})

----------------------------------------------------------------------------
(* utils/process_roi.py: threshold_roi_mask (binarize). *)

\* the cut-off 1.1 above which a volume counts as a 0-100 scale
RescaleCutoff == 110
\* the factor the threshold is multiplied by for a 0-100 scale
RescaleFactor == 100

\* mutant: logical_and written for logical_or, so no volume counts as binary
IsBinaryAnd(d) == \A v \in DOMAIN d : d[v] = 0 /\ d[v] = One

\* np.all(np.logical_or(arr == 0, arr == 1))
IsBinary(d) == \A v \in DOMAIN d : d[v] = 0 \/ d[v] = One

\* the threshold after `roi_threshold *= 100` when np.max(arr) > 1.1
EffectiveThreshold(d, thr) ==
    IF NpMax(d) > RescaleCutoff THEN thr * RescaleFactor ELSE thr

\* mutant: a strict comparison, > for >=
WhereGt(d, thr) == [v \in DOMAIN d |-> IF d[v] > thr THEN One ELSE 0]

\* np.where(arr >= thr, 1, 0)
WhereGe(d, thr) == [v \in DOMAIN d |-> IF d[v] >= thr THEN One ELSE 0]

\* mutant: the already-binary shortcut is forgotten, every volume is thresholded
ThresholdRoiMaskNoSkip(vol, thr, save_path) ==
    IF thr < 0 \/ thr > One THEN Raise("ValueError")
    ELSE IF ~vol.exists THEN Raise("FileNotFoundError")
    ELSE Return(Vol(vol.shape, vol.affine,
                    WhereGe(vol.data, EffectiveThreshold(vol.data, thr))),
                save_path)

ThresholdRoiMask(vol, thr, save_path) ==
    IF thr < 0 \/ thr > One THEN Raise("ValueError")
    ELSE IF ~vol.exists THEN Raise("FileNotFoundError")
    ELSE LET binary_roi_np ==
                 IF IsBinary(vol.data) THEN vol.data
                 ELSE WhereGe(vol.data, EffectiveThreshold(vol.data, thr))
         IN  Return(Vol(vol.shape, vol.affine, binary_roi_np), save_path)

----------------------------------------------------------------------------
(* The specification of binarize: a volume and a threshold are drawn, the  *)
(* function is called on them, then called again on its own output.        *)

BinValues ==
    {0 - 5, 0, Fx(0, 30), One, Fx(1, 10), Fx(1, 20), Fx(29, 90), Fx(30, 0), Fx(87, 0)}

BinThresholds == {0 - 10, 0, Fx(0, 30), Fx(0, 60), One, Fx(1, 50)}

BinVolumes == VolumesOn(<<BinVox, 1, 1>>, Affines, BinValues) \cup {NoFile}

IdleDriver ==
    /\ pc = <<>> /\ cursor = <<>> /\ roi_dir = {} /\ dirs = {}
    /\ files = {} /\ calls = {} /\ hist = <<>>

InitBinarize ==
    /\ args \in [vol : BinVolumes, thr : BinThresholds, save : BOOLEAN]
    /\ ret = NoCall /\ ret2 = NoCall /\ disk = NoFile
    /\ IdleDriver

Binarize ==
    /\ ret.outcome = "none"
    /\ ret' = ThresholdRoiMask(args.vol, args.thr, args.save)
    /\ disk' = ret'.saved
    /\ UNCHANGED <<args, ret2>>
    /\ UNCHANGED drvVars

BinarizeAgain ==
    /\ ret.outcome = "ok" /\ ret2.outcome = "none"
    /\ ret2' = ThresholdRoiMask(ret.value, args.thr, args.save)
    /\ disk' = IF ret2'.outcome = "ok" /\ args.save THEN ret2'.saved ELSE disk
    /\ UNCHANGED <<args, ret>>
    /\ UNCHANGED drvVars

NextBinarize == Binarize \/ BinarizeAgain

SpecBinarize == InitBinarize /\ [][NextBinarize]_vars

InUnitInterval(thr) == 0 <= thr /\ thr <= One

\* the first call was made on a volume that exists
BinarizeCalled == ret.outcome # "none" /\ args.vol.exists

InputIsBinary == \A v \in DOMAIN args.vol.data : args.vol.data[v] \in {0, One}

(* C7: for a non-binary volume and a threshold t in [0,1], binarize returns *)
(* 1 at a voxel exactly when its value >= the effective threshold and 0     *)
(* otherwise; the effective threshold is 100*t when some voxel exceeds 1.1  *)
(* (the maximum is greater than 1.1) and t otherwise.                       *)
C7_BinarizeRule ==
    (BinarizeCalled /\ ~InputIsBinary /\ InUnitInterval(args.thr)) =>
        LET d == args.vol.data
            eff == IF \E v \in DOMAIN d : d[v] > Fx(1, 10)
                   THEN 100 * args.thr ELSE args.thr
        IN  /\ ret.outcome = "ok"
            /\ DOMAIN ret.value.data = DOMAIN d
            /\ \A v \in DOMAIN d :
                   ret.value.data[v] = IF d[v] >= eff THEN One ELSE 0

\* the spec's example: maximum 87, t = 0.3, 29.9 gives 0 and 30.0 gives 1
C7_Witness ==
    /\ BinarizeCalled /\ args.thr = Fx(0, 30)
    /\ args.vol.data[<<1, 1, 1>>] = Fx(87, 0)
    /\ args.vol.data[<<2, 1, 1>>] = Fx(29, 90)
    /\ args.vol.data[<<3, 1, 1>>] = Fx(30, 0)
    /\ ret.outcome = "ok"
    /\ ret.value.data[<<2, 1, 1>>] = 0
    /\ ret.value.data[<<3, 1, 1>>] = One

(* C8: binarize is idempotent: for a volume x and a threshold t in [0,1],   *)
(* binarize(binarize(x, t), t) succeeds and has the voxel values and the    *)
(* grid (shape and affine) of binarize(x, t).                               *)
C8_Idempotent ==
    (ret.outcome = "ok" /\ ret2.outcome # "none") =>
        /\ ret2.outcome = "ok"
        /\ ret2.value.data = ret.value.data
        /\ SameGrid(ret2.value, ret.value)

\* a non-binary volume was binarized twice, and the first pass changed it
C8_Witness ==
    /\ args.vol.exists /\ ~InputIsBinary
    /\ ret.outcome = "ok" /\ ret2.outcome = "ok"
    /\ ret.value.data # args.vol.data
    /\ \E v, w \in DOMAIN ret.value.data :
           ret.value.data[v] = 0 /\ ret.value.data[w] = One

(* C9 as stated: whenever the input volume is already binary, binarize       *)
(* returns a volume with the same voxel values and grid and never raises.   *)
C9_BinaryNeverRaises ==
    (BinarizeCalled /\ InputIsBinary) =>
        /\ ret.outcome = "ok"
        /\ ret.value.data = args.vol.data
        /\ SameGrid(ret.value, args.vol)

(* C9 amended: whenever the input volume is already binary and the          *)
(* threshold is in [0,1], binarize returns a volume with the same voxel     *)
(* values and grid and does not raise.                                      *)
C9_BinaryNoOp ==
    (BinarizeCalled /\ InputIsBinary /\ InUnitInterval(args.thr)) =>
        /\ ret.outcome = "ok"
        /\ ret.value.data = args.vol.data
        /\ SameGrid(ret.value, args.vol)

\* a binary volume with both values was given with threshold 0, below which
\* thresholding would have set every voxel
C9_Witness ==
    /\ BinarizeCalled /\ InputIsBinary /\ args.thr = 0
    /\ \E v, w \in DOMAIN args.vol.data :
           args.vol.data[v] = 0 /\ args.vol.data[w] = One
    /\ ret.outcome = "ok"

----------------------------------------------------------------------------
(* utils/process_roi.py: dilate_binary_roi_mask (dilate), with             *)
(* scipy.ndimage.binary_dilation on its default structuring element (the   *)
(* 6 face neighbours in 3-D), border value 0 and no mask.                  *)

Abs(n) == IF n < 0 THEN 0 - n ELSE n

FaceAdjacent(u, v) == Abs(u[1] - v[1]) + Abs(u[2] - v[2]) + Abs(u[3] - v[3]) = 1

\* one pass of binary_dilation over the set S of set voxels
DilateOnce(S, shape) ==
    S \cup {v \in Voxels(shape) : \E u \in S : FaceAdjacent(u, v)}

RECURSIVE DilateTimes(_, _, _)
DilateTimes(S, shape, k) ==
    IF k <= 0 THEN S ELSE DilateTimes(DilateOnce(S, shape), shape, k - 1)

RECURSIVE DilateUntilStable(_, _)
DilateUntilStable(S, shape) ==
    LET T == DilateOnce(S, shape)
    IN  IF T = S THEN S ELSE DilateUntilStable(T, shape)

\* binary_dilation(input, iterations=iterations): the dilation is repeated
\* `iterations` times, and until the result no longer changes when
\* iterations is less than 1
BinaryDilation(S, shape, iterations) ==
    IF iterations < 1 THEN DilateUntilStable(S, shape)
    ELSE DilateTimes(S, shape, iterations)

DilateBinaryRoiMask(vol, iterations, save_path) ==
    IF ~vol.exists THEN Raise("FileNotFoundError")
    ELSE IF ~IsBinary(vol.data) THEN Raise("ValueError")
    ELSE LET S == {v \in DOMAIN vol.data : vol.data[v] # 0}
             T == BinaryDilation(S, vol.shape, iterations)
             dilated_roi_np == [v \in DOMAIN vol.data |-> IF v \in T THEN One ELSE 0]
         IN  Return(Vol(vol.shape, vol.affine, dilated_roi_np), save_path)

----------------------------------------------------------------------------
(* The specification of dilate: a mask and two iteration counts are drawn, *)
(* the function is called on the mask with the first, then with the second.*)

DilShape == <<DilX, 2, 2>>

DilVolumes ==
    VolumesOn(DilShape, {"A"}, {0, One})
        \cup {Vol(DilShape, "A", [v \in Voxels(DilShape) |-> Fx(0, 50)]), NoFile}

InitDilate ==
    /\ args \in [vol : DilVolumes, iterations : 0..MaxIter,
                 iterations2 : 0..MaxIter, save : BOOLEAN]
    /\ ret = NoCall /\ ret2 = NoCall /\ disk = NoFile
    /\ IdleDriver

Dilate ==
    /\ ret.outcome = "none"
    /\ ret' = DilateBinaryRoiMask(args.vol, args.iterations, args.save)
    /\ disk' = ret'.saved
    /\ UNCHANGED <<args, ret2>>
    /\ UNCHANGED drvVars

DilateSecond ==
    /\ ret.outcome = "ok" /\ ret2.outcome = "none"
    /\ ret2' = DilateBinaryRoiMask(args.vol, args.iterations2, args.save)
    /\ disk' = IF ret2'.outcome = "ok" /\ args.save THEN ret2'.saved ELSE disk
    /\ UNCHANGED <<args, ret>>
    /\ UNCHANGED drvVars

NextDilate == Dilate \/ DilateSecond

SpecDilate == InitDilate /\ [][NextDilate]_vars

(* C10: dilate with iterations = 0 returns a mask with exactly the voxel    *)
(* values of the input binary mask, for every binary mask.                  *)
C10_ZeroIterationsIdentity ==
    (ret.outcome # "none" /\ args.vol.exists /\ InputIsBinary
        /\ args.iterations = 0) =>
        /\ ret.outcome = "ok"
        /\ ret.value.data = args.vol.data

SetVoxels(vol) == {v \in DOMAIN vol.data : vol.data[v] # 0}

(* C11: dilation is monotone in the iteration count: for a binary mask m    *)
(* and 0 <= k1 <= k2 every voxel set in dilate(m, k1) is set in             *)
(* dilate(m, k2), every voxel set in m is set in dilate(m, k), and one      *)
(* iteration adds the 6 face neighbours of every set voxel.                 *)
C11_DilationMonotone ==
    (ret.outcome = "ok") =>
        /\ SetVoxels(args.vol) \subseteq SetVoxels(ret.value)
        /\ args.iterations = 1 =>
              SetVoxels(ret.value) =
                 SetVoxels(args.vol) \cup
                    {v \in DOMAIN args.vol.data :
                        \E u \in SetVoxels(args.vol) : FaceAdjacent(u, v)}
        /\ (ret2.outcome = "ok" /\ args.iterations <= args.iterations2) =>
              SetVoxels(ret.value) \subseteq SetVoxels(ret2.value)

----------------------------------------------------------------------------
(* utils/extract_csf.py: extract_local_csf_mask (derive).  The three       *)
(* arrays are combined by numpy's elementwise operators, which broadcast:  *)
(* two extents along an axis are compatible when they are equal or one of  *)
(* them is 1, and incompatible shapes raise ValueError.                    *)

\* the default csf_threshold, 0.6
CsfThresholdDefault == 60

Max2(a, b) == IF a > b THEN a ELSE b

Broadcastable(s1, s2, s3) ==
    \A i \in 1..3 : Cardinality({s1[i], s2[i], s3[i]} \ {1}) <= 1

BroadcastShape(s1, s2, s3) ==
    [i \in 1..3 |-> Max2(s1[i], Max2(s2[i], s3[i]))]

\* the element of an array of shape `shape` that voxel v of the broadcast reads
At(d, shape, v) == d[<<IF shape[1] = 1 THEN 1 ELSE v[1],
                      IF shape[2] = 1 THEN 1 ELSE v[2],
                      IF shape[3] = 1 THEN 1 ELSE v[3]>>]

\* mutant: the test that a voxel lies outside the original ROI is dropped
LocalCsfRuleNoOriginal(c, d, o) == c > 0 /\ d > 0

\* (csf_np > 0) & (dilated_roi_np > 0) & (binary_roi_np == 0)
LocalCsfRule(c, d, o) == c > 0 /\ d > 0 /\ o = 0

\* the function with its save moved ahead of the test for an empty mask
ExtractLocalCsfMaskSaveFirst(csf, roi, dil, csf_threshold, save_path) ==
    IF ~csf.exists THEN Raise("FileNotFoundError")
    ELSE LET csf_np == IF IsBinary(csf.data) THEN csf.data
                       ELSE WhereGe(csf.data, csf_threshold)
         IN  IF ~roi.exists \/ ~dil.exists THEN Raise("FileNotFoundError")
             ELSE IF ~Broadcastable(csf.shape, dil.shape, roi.shape)
             THEN Raise("ValueError")
             ELSE LET shape == BroadcastShape(csf.shape, dil.shape, roi.shape)
                      local_csf_np ==
                          [v \in Voxels(shape) |->
                              IF LocalCsfRule(At(csf_np, csf.shape, v),
                                              At(dil.data, dil.shape, v),
                                              At(roi.data, roi.shape, v))
                              THEN One ELSE 0]
                      written == Return(Vol(shape, dil.affine, local_csf_np),
                                        save_path)
                  IN  IF NpSum01(local_csf_np) = 0
                      THEN [outcome |-> "ValueError", value |-> NoFile,
                            saved |-> written.saved]
                      ELSE written

ExtractLocalCsfMask(csf, roi, dil, csf_threshold, save_path) ==
    IF ~csf.exists THEN Raise("FileNotFoundError")
    ELSE LET csf_np == IF IsBinary(csf.data) THEN csf.data
                       ELSE WhereGe(csf.data, csf_threshold)
         IN  IF ~roi.exists \/ ~dil.exists THEN Raise("FileNotFoundError")
             ELSE IF ~Broadcastable(csf.shape, dil.shape, roi.shape)
             THEN Raise("ValueError")
             ELSE LET shape == BroadcastShape(csf.shape, dil.shape, roi.shape)
                      local_csf_np ==
                          [v \in Voxels(shape) |->
                              IF LocalCsfRule(At(csf_np, csf.shape, v),
                                              At(dil.data, dil.shape, v),
                                              At(roi.data, roi.shape, v))
                              THEN One ELSE 0]
                  IN  IF NpSum01(local_csf_np) = 0 THEN Raise("ValueError")
                      ELSE Return(Vol(shape, dil.affine, local_csf_np), save_path)

----------------------------------------------------------------------------
(* The specification of derive: a tissue volume, an original mask and a    *)
(* dilated mask are drawn, each on a grid of its own, and the function is  *)
(* called on them.                                                         *)

LocShape == <<LocVox, 1, 1>>

CsfValues == {0, Fx(0, 50), One, Fx(50, 0)}

CsfVolumes == VolumesOn(LocShape, Affines, CsfValues) \cup {NoFile}

MaskShapes == {LocShape, <<1, 1, 1>>, <<LocVox + 1, 1, 1>>}

MaskVolumes ==
    UNION {VolumesOn(sh, Affines, {0, One}) : sh \in MaskShapes} \cup {NoFile}

InitDerive ==
    /\ args \in [csf : CsfVolumes, roi : MaskVolumes, dil : MaskVolumes,
                 thr : {CsfThresholdDefault}, save : BOOLEAN]
    /\ ret = NoCall /\ ret2 = NoCall /\ disk = NoFile
    /\ IdleDriver

Derive ==
    /\ ret.outcome = "none"
    /\ ret' = ExtractLocalCsfMask(args.csf, args.roi, args.dil, args.thr, args.save)
    /\ disk' = ret'.saved
    /\ UNCHANGED <<args, ret2>>
    /\ UNCHANGED drvVars

NextDerive == Derive

SpecDerive == InitDerive /\ [][NextDerive]_vars

DeriveCalled ==
    ret.outcome # "none" /\ args.csf.exists /\ args.roi.exists /\ args.dil.exists

OneGrid == SameGrid(args.csf, args.roi) /\ SameGrid(args.roi, args.dil)

\* the tissue as the derive step binarizes it: kept when binary, else 1 where
\* the value reaches the threshold
TissueBit(v) ==
    LET d == args.csf.data
    IN  IF \A w \in DOMAIN d : d[w] \in {0, One}
        THEN d[v] = One ELSE d[v] >= args.thr

(* C4: for inputs on one grid, the local mask derive returns is 1 at a      *)
(* voxel exactly when the binarized tissue is 1, the dilated mask is 1 and  *)
(* the original mask is 0 there, and 0 otherwise; so it is disjoint from    *)
(* the original mask and contained in the dilated mask.                     *)
C4_LocalMaskRule ==
    (DeriveCalled /\ OneGrid /\ ret.outcome = "ok") =>
        LET local == ret.value.data
        IN  /\ DOMAIN local = DOMAIN args.dil.data
            /\ \A v \in DOMAIN local :
                   /\ local[v] \in {0, One}
                   /\ local[v] = One <=>
                        (TissueBit(v) /\ args.dil.data[v] = One
                            /\ args.roi.data[v] = 0)
                   /\ ~(local[v] = One /\ args.roi.data[v] = One)
                   /\ local[v] = One => args.dil.data[v] = One

\* a local mask was returned for a non-binary tissue volume where a voxel of
\* the dilated ring takes tissue and a voxel of the original ROI does not
C4_Witness ==
    /\ DeriveCalled /\ OneGrid /\ ret.outcome = "ok"
    /\ \E v \in DOMAIN args.csf.data : args.csf.data[v] \notin {0, One}
    /\ \E v, w \in DOMAIN ret.value.data :
           /\ ret.value.data[v] = One
           /\ ret.value.data[w] = 0 /\ args.roi.data[w] = One
               /\ args.dil.data[w] = One /\ TissueBit(w)

(* C5: when the tissue volume is not binary, derive binarizes it by the      *)
(* Binarizer rules including auto-rescale, so the call has the outcome and   *)
(* the local mask it has on the tissue volume passed through binarize with   *)
(* the same threshold first.                                                 *)
C5_DeriveBinarizesLikeBinarize ==
    (DeriveCalled /\ ~IsBinary(args.csf.data)) =>
        LET b == ThresholdRoiMask(args.csf, args.thr, FALSE)
            r == ExtractLocalCsfMask(b.value, args.roi, args.dil, args.thr, args.save)
        IN  /\ b.outcome = "ok"
            /\ ret.outcome = r.outcome
            /\ ret.value = r.value

(* C6: derive requires the tissue volume, the original mask and the dilated *)
(* mask to have identical grids (same shape and affine); on any mismatch it *)
(* fails, and returns and writes no local mask.                             *)
C6_GridMismatchRejected ==
    (DeriveCalled /\ ~OneGrid) =>
        /\ ret.outcome # "ok"
        /\ ~ret.value.exists
        /\ ~disk.exists

----------------------------------------------------------------------------
(* pipeline.py: the driver.  One process per subject (SUBJ in the           *)
(* environment) runs __main__: the seven run_* steps in order, each a loop  *)
(* over the ROI files of the catalog (steps 5-7 also over the runs) that    *)
(* builds the paths and calls the step's stage function.  All processes     *)
(* share ROI_DIR and OUTPUT_DIR.  An exception a call raises is caught      *)
(* nowhere and ends the process.  The data files of a subject (tissue       *)
(* volume, functional runs, confound tables) and the template are present   *)
(* and valid.                                                               *)

Subjects == {"sub-01", "sub-02"}

\* DEFAULT_ROIS: one Harvard-Oxford ROI, the group PAG and the subject's PAG
subcortical_roi == <<"R_amygdala", "brainstemNav_PAG", "sub_PAG_across_runs">>

\* DEFAULT_REST_RUNS
run_numbers == <<"run-01", "run-02", "run-03">>

\* a file name is the sequence of its parts
HarvardOxfordFile == [dir |-> "harvard_oxford", base |-> <<"R_amygdala">>]
BrainstemNavFile == [dir |-> "brainstemNav", base |-> <<"PAG_prob">>]
SubjectPagFile(subj) ==
    [dir |-> "sub_PAG_across_runs", base |-> <<subj, "pag_mask_averaged_all-runs">>]

RoiDirFiles ==
    {HarvardOxfordFile, BrainstemNavFile} \cup {SubjectPagFile(subj) : subj \in Subjects}

\* roi_files.get(roi_name, []) of the catalog initialize_roi_dict builds
RoiFiles(dir, subj, roi_name) ==
    LET f == CASE roi_name = "R_amygdala" -> HarvardOxfordFile
               [] roi_name = "brainstemNav_PAG" -> BrainstemNavFile
               [] OTHER -> SubjectPagFile(subj)
    IN  IF f \in dir THEN <<f>> ELSE <<>>

\* the (roi_name, roi_path) pairs in the order the loops of steps 1-4 meet them
RECURSIVE RoiUnitsFrom(_, _, _)
RoiUnitsFrom(dir, subj, i) ==
    IF i > Len(subcortical_roi) THEN <<>>
    ELSE LET roi_name == subcortical_roi[i]
             paths == RoiFiles(dir, subj, roi_name)
         IN  [j \in 1..Len(paths) |-> [roi |-> roi_name, path |-> paths[j], run |-> "-"]]
                 \o RoiUnitsFrom(dir, subj, i + 1)

RoiUnits(dir, subj) == RoiUnitsFrom(dir, subj, 1)

\* the (roi_name, roi_path, run) triples in the order of the loops of steps 5-7
RunUnits(dir, subj) ==
    LET ru == RoiUnits(dir, subj)
        n == Len(run_numbers)
    IN  [k \in 1..(Len(ru) * n) |->
            [roi |-> ru[((k - 1) \div n) + 1].roi,
             path |-> ru[((k - 1) \div n) + 1].path,
             run |-> run_numbers[((k - 1) % n) + 1]]]

\* subj in os.path.basename(roi_path)
IsSubjectSpecific(subj, roi_path) ==
    \E i \in DOMAIN roi_path.base : roi_path.base[i] = subj

\* f"{subj}_{roi_name}_{suffix}.nii.gz" or f"{roi_name}_{suffix}.nii.gz"
MaskFileName(subj, u, suffix) ==
    IF IsSubjectSpecific(subj, u.path)
    THEN <<subj, u.roi, suffix>> ELSE <<u.roi, suffix>>

\* os.path.join(out_dir, step_dir, roi_name, file_name)
OutPath(step_dir, roi_name, file_name) == <<"output", step_dir, roi_name, file_name>>

Steps ==
    <<"run_process_roi_mask", "run_threshold_roi_mask", "run_dilate_binary_roi_mask",
      "run_extract_local_csf_mask", "run_extract_local_csf_time_series",
      "run_add_local_csf_time_series_to_confound_file",
      "run_compute_functional_timeseries">>

StepDir ==
    <<"1.proc_roi", "2.thresh_roi", "3.dilated_roi", "4.local_csf_mask",
      "5.local_csf_ts", "6.mod_confounds", "7.corrected_ts">>

ProcPath(subj, u) == OutPath(StepDir[1], u.roi, MaskFileName(subj, u, "mask_proc"))
BinaryPath(subj, u) == OutPath(StepDir[2], u.roi, MaskFileName(subj, u, "mask_binary"))
DilatedPath(subj, u) == OutPath(StepDir[3], u.roi, MaskFileName(subj, u, "mask_dilated"))
LocalMaskPath(subj, u) == OutPath(StepDir[4], u.roi, <<subj, u.roi, "local_csf_mask">>)
LocalTsPath(subj, u) ==
    OutPath(StepDir[5], u.roi, <<subj, "task-rest", u.run, u.roi, "local_csf_ts">>)
ModConfPath(subj, u) ==
    OutPath(StepDir[6], u.roi, <<subj, "task-rest", u.run, "bold_confounds_mod">>)
CorrectedTsPath(subj, u) ==
    OutPath(StepDir[7], u.roi, <<subj, "task-rest", u.run, u.roi, "corrected_ts">>)

\* the save_path step k builds for unit u
SavePath(k, subj, u) ==
    CASE k = 1 -> ProcPath(subj, u)
      [] k = 2 -> BinaryPath(subj, u)
      [] k = 3 -> DilatedPath(subj, u)
      [] k = 4 -> LocalMaskPath(subj, u)
      [] k = 5 -> LocalTsPath(subj, u)
      [] k = 6 -> ModConfPath(subj, u)
      [] OTHER -> CorrectedTsPath(subj, u)

\* the artifacts of earlier steps that step k hands to its stage function for
\* unit u, each with the step that writes it
ArtifactsRead(k, subj, u) ==
    CASE k = 1 -> {}
      [] k = 2 -> {[path |-> ProcPath(subj, u), producer |-> 1]}
      [] k = 3 -> {[path |-> BinaryPath(subj, u), producer |-> 2]}
      [] k = 4 -> {[path |-> BinaryPath(subj, u), producer |-> 2],
                   [path |-> DilatedPath(subj, u), producer |-> 3]}
      [] k = 5 -> {[path |-> LocalMaskPath(subj, u), producer |-> 4]}
      [] k = 6 -> {[path |-> LocalTsPath(subj, u), producer |-> 5]}
      [] OTHER -> {[path |-> BinaryPath(subj, u), producer |-> 2],
                   [path |-> ModConfPath(subj, u), producer |-> 6]}

\* the parameters of each stage function, and how many have no default
Signature ==
    <<[params |-> <<"roi_path", "template_path", "save_path", "verbose">>,
       required |-> 2],
      [params |-> <<"proc_roi_path", "roi_threshold", "save_path", "verbose">>,
       required |-> 1],
      [params |-> <<"threshold_roi_path", "iterations", "save_path", "verbose">>,
       required |-> 1],
      [params |-> <<"csf_mask_path", "threshold_roi_path", "dilated_roi_path",
                    "csf_threshold", "save_path", "verbose">>,
       required |-> 3],
      [params |-> <<"func_mask_path", "local_csf_mask_path", "roi", "save_path",
                    "verbose">>,
       required |-> 3],
      [params |-> <<"confound_file_path", "local_csf_ts_path", "roi", "save_path",
                    "verbose">>,
       required |-> 3],
      [params |-> <<"func_mask_path", "binary_roi_path", "mod_conf_path", "roi_name",
                    "confound_vars", "save_path", "verbose">>,
       required |-> 4]>>

\* the call each step makes: its positional arguments and its keywords
CallSite ==
    <<[positional |-> <<"roi_path", "roi_name", "template_path">>,
       keywords |-> {"save_path"}],
      [positional |-> <<"processed_roi_path">>, keywords |-> {"save_path"}],
      [positional |-> <<"binary_roi_path">>, keywords |-> {"save_path"}],
      [positional |-> <<"csf_mask_path", "binary_roi_path", "dilated_roi_path">>,
       keywords |-> {"save_path"}],
      [positional |-> <<"func_mask_path", "local_csf_path", "roi_name">>,
       keywords |-> {"save_path"}],
      [positional |-> <<"confound_file_path", "local_csf_timeseries_path", "roi_name">>,
       keywords |-> {"save_path"}],
      [positional |-> <<"func_mask_path", "binary_roi_path", "mod_conf_path", "roi_name">>,
       keywords |-> {"confound_vars", "save_path"}]>>

\* Python's binding of a call's arguments to a function's parameters: no more
\* positional arguments than parameters, each keyword a parameter no
\* positional argument has filled, every parameter without default filled
CallBinds(sig, call) ==
    LET npos == Len(call.positional)
    IN  /\ npos <= Len(sig.params)
        /\ \A kw \in call.keywords :
               \E i \in (npos + 1)..Len(sig.params) : sig.params[i] = kw
        /\ \A i \in 1..sig.required :
               i <= npos \/ sig.params[i] \in call.keywords

Written(path) == \E f \in files : f.path = path

\* what the call of step k for unit u does: the exception it raises, or "ok"
StageOutcome(k, subj, u) ==
    IF ~CallBinds(Signature[k], CallSite[k]) THEN "TypeError"
    ELSE IF \E a \in ArtifactsRead(k, subj, u) : ~Written(a.path)
    THEN "FileNotFoundError"
    ELSE "ok"

\* the units the loops of step k go through
UnitsOfStep(k, subj) ==
    IF k <= 4 THEN RoiUnits(roi_dir, subj) ELSE RunUnits(roi_dir, subj)

\* the step __main__ calls after step k
StepAfter(k) == IF k = Len(Steps) THEN "done" ELSE Steps[k + 1]

\* one pass of the loop body of step k in the process of subj: the next unit's
\* directory is created and its stage function called; the step returns when
\* the loops are exhausted
RunStep(k, subj) ==
    /\ pc[subj] = Steps[k]
    /\ LET units == UnitsOfStep(k, subj)
       IN  IF cursor[subj] > Len(units)
           THEN /\ pc' = [pc EXCEPT ![subj] = StepAfter(k)]
                /\ cursor' = [cursor EXCEPT ![subj] = 1]
                /\ UNCHANGED <<dirs, files, calls, hist>>
           ELSE LET u == units[cursor[subj]]
                    outcome == StageOutcome(k, subj, u)
                    save_path == SavePath(k, subj, u)
                IN  /\ dirs' = dirs \cup {<<"output", StepDir[k], u.roi>>}
                    /\ calls' = calls \cup
                          {[subj |-> subj, step |-> k, unit |-> u,
                            reads |-> ArtifactsRead(k, subj, u),
                            missing |-> {a \in ArtifactsRead(k, subj, u) :
                                          ~\E f \in files : f.path = a.path
                                                /\ f.step = a.producer},
                            save_path |-> save_path, outcome |-> outcome]}
                    /\ IF outcome = "ok"
                       THEN /\ files' = files \cup
                                 {[path |-> save_path, step |-> k, subj |-> subj]}
                            /\ hist' = [hist EXCEPT ![subj] =
                                          Append(@, [step |-> k, unit |-> u])]
                            /\ cursor' = [cursor EXCEPT ![subj] = @ + 1]
                            /\ pc' = pc
                       ELSE /\ pc' = [pc EXCEPT ![subj] = "aborted"]
                            /\ UNCHANGED <<files, hist, cursor>>
    /\ UNCHANGED roi_dir
    /\ UNCHANGED fnVars

RunProcessRoiMask(subj) == RunStep(1, subj)
RunThresholdRoiMask(subj) == RunStep(2, subj)
RunDilateBinaryRoiMask(subj) == RunStep(3, subj)
RunExtractLocalCsfMask(subj) == RunStep(4, subj)
RunExtractLocalCsfTimeSeries(subj) == RunStep(5, subj)
RunAddLocalCsfTimeSeriesToConfoundFile(subj) == RunStep(6, subj)
RunComputeFunctionalTimeseries(subj) == RunStep(7, subj)

Init ==
    /\ roi_dir \in SUBSET RoiDirFiles
    /\ pc = [subj \in Subjects |-> Steps[1]]
    /\ cursor = [subj \in Subjects |-> 1]
    /\ dirs = {} /\ files = {} /\ calls = {}
    /\ hist = [subj \in Subjects |-> <<>>]
    /\ args = NoCall /\ ret = NoCall /\ ret2 = NoCall /\ disk = NoFile

Next ==
    \E subj \in Subjects :
        \/ RunProcessRoiMask(subj)
        \/ RunThresholdRoiMask(subj)
        \/ RunDilateBinaryRoiMask(subj)
        \/ RunExtractLocalCsfMask(subj)
        \/ RunExtractLocalCsfTimeSeries(subj)
        \/ RunAddLocalCsfTimeSeriesToConfoundFile(subj)
        \/ RunComputeFunctionalTimeseries(subj)

Spec == Init /\ [][Next]_vars

Ended(subj) == pc[subj] \in {"done", "aborted"}

AllStages == [k \in 1..Len(Steps) |-> k]

IsPrefix(a, b) == Len(a) <= Len(b) /\ \A i \in 1..Len(a) : a[i] = b[i]

\* the stages that ran for the (subject, ROI, run) unit u, in the order they ran
StagesRun(subj, u) ==
    LET OfUnit(e) == e.unit.roi = u.roi /\ e.unit.run \in {"-", u.run}
        sel == SelectSeq(hist[subj], OfUnit)
    IN  [i \in 1..Len(sel) |-> sel[i].step]

C2_FailureStopsOnlyItsUnit ==
    \A c \in calls :
        (c.outcome # "ok" /\ Ended(c.subj)) =>
            \A i \in DOMAIN RunUnits(roi_dir, c.subj) :
                LET u == RunUnits(roi_dir, c.subj)[i]
                IN  u.roi # c.unit.roi => StagesRun(c.subj, u) = AllStages

(* C3: units of different subjects and units of different ROIs share        *)
(* nothing: the output location (save_path) of a stage call of one is       *)
(* neither the output location of a stage call of the other nor a path the  *)
(* other reads.                                                             *)
C3_SharedNothing ==
    \A c1, c2 \in calls :
        (c1.subj # c2.subj \/ c1.unit.roi # c2.unit.roi) =>
            /\ c1.save_path # c2.save_path
            /\ \A a \in c2.reads : a.path # c1.save_path

\* the driver is one sequential process: a step that can run does run
FairSpec == Spec /\ WF_vars(Next)

AllInputsPresent == roi_dir = RoiDirFiles

Cleaned(subj, u) == StagesRun(subj, u) = AllStages

(* C18: when the driver's main sequence runs on inputs that are all present *)
(* and valid, every call of a stage function binds its arguments to the     *)
(* function's parameters, so that every (subject, ROI, run) unit eventually *)
(* has all seven stages run and is Cleaned.                                 *)
C18_EveryUnitCleaned ==
    AllInputsPresent ~>
        /\ \A c \in calls : CallBinds(Signature[c.step], CallSite[c.step])
        /\ \A subj \in Subjects :
              \A i \in DOMAIN RunUnits(roi_dir, subj) :
                  Cleaned(subj, RunUnits(roi_dir, subj)[i])

----------------------------------------------------------------------------
(* utils/process_roi.py: process_roi_mask (resample), with                  *)
(* nilearn.image.resample_img.  An affine here is a translation along x by  *)
(* a whole number of voxels: a voxel with index i lies at world position    *)
(* i + affine.                                                              *)

ResX == 2

ResShapes == {<<x, 1, 1>> : x \in 1..ResX}

ResAffines == {0, 1}

ResValues == {0, Fx(0, 50), One}

ResVolumes ==
    UNION {VolumesOn(s, ResAffines, ResValues) : s \in ResShapes}

TemplateVolumes == UNION {VolumesOn(s, ResAffines, {0}) : s \in ResShapes}

\* the value of `vol` at the world position of voxel v of the target grid,
\* 0 outside the field of view; on whole-voxel translations 'nearest' and
\* 'linear' sample the same voxel
ResampleImg(vol, target_affine, target_shape, interpolation) ==
    LET Src(v) == <<v[1] + target_affine - vol.affine, v[2], v[3]>>
    IN  Vol(target_shape, target_affine,
            [v \in Voxels(target_shape) |->
                IF Src(v) \in DOMAIN vol.data THEN vol.data[Src(v)] ELSE 0])

ProcessRoiMask(roi, template_path, template, save_path) ==
    IF ~roi.exists THEN Raise("FileNotFoundError")
    ELSE IF ~template_path THEN Return(roi, save_path)
    ELSE IF ~template.exists THEN Raise("FileNotFoundError")
    ELSE IF roi.shape # template.shape
         THEN LET interp_method ==
                      IF IsBinary(roi.data) THEN "nearest" ELSE "linear"
                  processed_roi_nii ==
                      ResampleImg(roi, template.affine, template.shape,
                                  interp_method)
              IN  IF processed_roi_nii.shape # template.shape
                  THEN Raise("ValueError")
                  ELSE Return(processed_roi_nii, save_path)
         ELSE Return(roi, save_path)

InitResample ==
    /\ args \in [roi : ResVolumes \cup {NoFile}, template_path : BOOLEAN,
                 template : TemplateVolumes \cup {NoFile}, save : BOOLEAN]
    /\ ret = NoCall /\ ret2 = NoCall /\ disk = NoFile
    /\ IdleDriver

Resample ==
    /\ ret.outcome = "none"
    /\ ret' = ProcessRoiMask(args.roi, args.template_path, args.template,
                             args.save)
    /\ disk' = ret'.saved
    /\ UNCHANGED <<args, ret2>>
    /\ UNCHANGED drvVars

NextResample == Resample

SpecResample == InitResample /\ [][NextResample]_vars

(* C12: a volume returned by process_roi_mask called with a template has    *)
(* the template's shape and affine, and it is the input itself only when    *)
(* the input's shape and affine both equal the template's.                  *)
C12_ResampledOnTargetGrid ==
    (ret.outcome = "ok" /\ args.template_path) =>
        /\ SameGrid(ret.value, args.template)
        /\ ~SameGrid(args.roi, args.template) => ret.value # args.roi


----------------------------------------------------------------------------
(* utils/extract_csf.py: extract_local_csf_time_series (extract), with      *)
(* nilearn's NiftiMasker.  A functional image holds, at every voxel, the    *)
(* sequence of its values over the frames; a mean is kept exact as the      *)
(* pair of the sum and the number of voxels averaged.                       *)

ExtX == 2

Frames == 2

ExtShapes == {<<x, 1, 1>> : x \in 1..ExtX}

BoldValues == {Fx(1, 0), Fx(3, 0)}

FuncVolumes ==
    UNION {VolumesOn(s, ResAffines, [1..Frames -> BoldValues]) :
             s \in ExtShapes}

CsfMaskVolumes == UNION {VolumesOn(s, ResAffines, {0, One}) : s \in ExtShapes}

RECURSIVE SumOver(_, _)
SumOver(d, S) ==
    IF S = {} THEN 0
    ELSE LET v == CHOOSE x \in S : TRUE
         IN  d[v] + SumOver(d, S \ {v})

\* np.mean over the voxel axis of one frame
NpMean(row) == [sum |-> SumOver(row, DOMAIN row),
                n |-> Cardinality(DOMAIN row)]

\* NiftiMasker(mask_img).fit_transform(imgs): imgs on another grid than the
\* mask are resampled onto the mask's grid, then the voxels where the mask
\* is set are selected, frame by frame; an empty mask is rejected
NiftiMaskerFitTransform(mask_img, imgs) ==
    LET Src(v) == <<v[1] + mask_img.affine - imgs.affine, v[2], v[3]>>
        on_mask_grid(v, t) ==
            IF SameGrid(imgs, mask_img) THEN imgs.data[v][t]
            ELSE IF Src(v) \in DOMAIN imgs.data THEN imgs.data[Src(v)][t]
            ELSE 0
        selected == {v \in DOMAIN mask_img.data : mask_img.data[v] # 0}
    IN  IF selected = {} THEN [error |-> "ValueError"]
        ELSE [error |-> "none",
              signals |-> [t \in 1..Frames |->
                             [v \in selected |-> on_mask_grid(v, t)]]]

ColumnLabel(roi) == roi \o "_local_csf"

ExtractLocalCsfTimeSeries(func, local_csf, roi, save_path) ==
    IF ~func.exists THEN Raise("FileNotFoundError")
    ELSE IF ~local_csf.exists THEN Raise("FileNotFoundError")
    ELSE LET func_nii_masked == NiftiMaskerFitTransform(local_csf, func)
         IN  IF func_nii_masked.error # "none"
             THEN Raise(func_nii_masked.error)
             ELSE LET mean_csf_np ==
                          [t \in 1..Frames |->
                              NpMean(func_nii_masked.signals[t])]
                      csf_timeseries_df ==
                          [columns |-> <<ColumnLabel(roi)>>,
                           rows |-> [t \in 1..Frames |-> <<mean_csf_np[t]>>]]
                  IN  Return(csf_timeseries_df, save_path)

InitExtract ==
    /\ args \in [func : FuncVolumes \cup {NoFile},
                 local_csf : CsfMaskVolumes \cup {NoFile},
                 roi : {"R_amygdala"}, save : BOOLEAN]
    /\ ret = NoCall /\ ret2 = NoCall /\ disk = NoFile
    /\ IdleDriver

Extract ==
    /\ ret.outcome = "none"
    /\ ret' = ExtractLocalCsfTimeSeries(args.func, args.local_csf, args.roi,
                                        args.save)
    /\ disk' = ret'.saved
    /\ UNCHANGED <<args, ret2>>
    /\ UNCHANGED drvVars

NextExtract == Extract

SpecExtract == InitExtract /\ [][NextExtract]_vars

(* C13: extract_local_csf_time_series called with a functional image and a  *)
(* mask whose grids differ, in shape or in affine, fails with an error and  *)
(* neither returns nor writes a time series.                                *)
C13_GridMismatchFails ==
    (/\ ret.outcome # "none"
     /\ args.func.exists /\ args.local_csf.exists
     /\ ~SameGrid(args.func, args.local_csf)) =>
        /\ ret.outcome # "ok"
        /\ ret.saved = NoFile /\ disk = NoFile


----------------------------------------------------------------------------
(* utils/extract_csf.py: add_local_csf_time_series_to_confound_file         *)
(* (augment).  A table is its sequence of column names and its sequence of  *)
(* rows, every row holding one value per column.                            *)

MaxRows == 2

Table(columns, rows) == [exists |-> TRUE, columns |-> columns, rows |-> rows]

TablesOn(columns, values) ==
    {Table(columns, r) :
        r \in UNION {[1..n -> [1..Len(columns) -> values]] : n \in 1..MaxRows}}

Range(s) == {s[i] : i \in DOMAIN s}

\* position of column `name` in the table
ColumnIndex(df, name) == CHOOSE k \in DOMAIN df.columns : df.columns[k] = name

\* df[name]
Column(df, name) ==
    [i \in DOMAIN df.rows |-> df.rows[i][ColumnIndex(df, name)]]

\* df[name] = series, always adding the column at the end
SetItemAppend(df, name, series) ==
    Table(Append(df.columns, name),
          [i \in DOMAIN df.rows |->
              Append(df.rows[i], IF i \in DOMAIN series THEN series[i]
                                 ELSE "NaN")])

\* df[name] = series: values are aligned on the row index; an existing
\* column keeps its position, a new one is added at the end
SetItem(df, name, series) ==
    LET value(i) == IF i \in DOMAIN series THEN series[i] ELSE "NaN"
    IN  IF name \in Range(df.columns)
        THEN Table(df.columns,
                   [i \in DOMAIN df.rows |->
                       [k \in DOMAIN df.columns |->
                           IF k = ColumnIndex(df, name) THEN value(i)
                           ELSE df.rows[i][k]]])
        ELSE Table(Append(df.columns, name),
                   [i \in DOMAIN df.rows |-> Append(df.rows[i], value(i))])

\* the function without its comparison of the two lengths
AddLocalCsfNoLengthCheck(conf, local_csf_ts, roi, save_path) ==
    IF ~conf.exists THEN Raise("FileNotFoundError")
    ELSE IF ~local_csf_ts.exists THEN Raise("FileNotFoundError")
    ELSE LET csf_column_name == ColumnLabel(roi)
         IN  IF csf_column_name \notin Range(local_csf_ts.columns)
             THEN Raise("ValueError")
             ELSE Return(SetItem(conf, csf_column_name,
                                 Column(local_csf_ts, csf_column_name)),
                         save_path)

AddLocalCsfTimeSeriesToConfoundFile(conf, local_csf_ts, roi, save_path) ==
    IF ~conf.exists THEN Raise("FileNotFoundError")
    ELSE IF ~local_csf_ts.exists THEN Raise("FileNotFoundError")
    ELSE LET csf_column_name == ColumnLabel(roi)
         IN  IF csf_column_name \notin Range(local_csf_ts.columns)
             THEN Raise("ValueError")
             ELSE IF Len(conf.rows) # Len(local_csf_ts.rows)
             THEN Raise("ValueError")
             ELSE Return(SetItem(conf, csf_column_name,
                                 Column(local_csf_ts, csf_column_name)),
                         save_path)

ConfColumns ==
    {<<"X">>, <<"X", ColumnLabel("R_amygdala")>>,
     <<ColumnLabel("R_amygdala"), "X">>}

ConfTables == UNION {TablesOn(c, {0, One}) : c \in ConfColumns}

TsTables ==
    UNION {TablesOn(<<ColumnLabel(r)>>, {Fx(0, 20), Fx(0, 30)}) :
             r \in {"R_amygdala", "L_amygdala"}}

TsTablesAgain == TablesOn(<<ColumnLabel("R_amygdala")>>, {Fx(0, 40)})

InitAugment ==
    /\ args \in [conf : ConfTables \cup {NoFile},
                 local_csf_ts : TsTables \cup {NoFile},
                 local_csf_ts2 : TsTablesAgain,
                 roi : {"R_amygdala"}, save : BOOLEAN]
    /\ ret = NoCall /\ ret2 = NoCall /\ disk = NoFile
    /\ IdleDriver

Augment ==
    /\ ret.outcome = "none"
    /\ ret' = AddLocalCsfTimeSeriesToConfoundFile(
                  args.conf, args.local_csf_ts, args.roi, args.save)
    /\ disk' = ret'.saved
    /\ UNCHANGED <<args, ret2>>
    /\ UNCHANGED drvVars

\* the table of the first call is augmented again under the same name
AugmentAgain ==
    /\ ret.outcome = "ok" /\ ret2.outcome = "none"
    /\ ret2' = AddLocalCsfTimeSeriesToConfoundFile(
                   ret.value, args.local_csf_ts2, args.roi, args.save)
    /\ disk' = IF ret2'.outcome = "ok" /\ args.save THEN ret2'.saved ELSE disk
    /\ UNCHANGED <<args, ret>>
    /\ UNCHANGED drvVars

NextAugment == Augment \/ AugmentAgain

SpecAugment == InitAugment /\ [][NextAugment]_vars

AugmentInputsPresent == args.conf.exists /\ args.local_csf_ts.exists

(* C14: when the confound table's row count differs from the length of the  *)
(* new column, add_local_csf_time_series_to_confound_file raises the        *)
(* ValueError of its checks; no table is returned or written, so no row is  *)
(* truncated or padded.                                                     *)
C14_RowMismatchRaises ==
    /\ (/\ ret.outcome # "none" /\ AugmentInputsPresent
        /\ Len(args.conf.rows) # Len(args.local_csf_ts.rows)) =>
           /\ ret.outcome = "ValueError"
           /\ ret.value = NoFile /\ ret.saved = NoFile /\ disk = NoFile
    /\ (/\ ret2.outcome # "none"
        /\ Len(ret.value.rows) # Len(args.local_csf_ts2.rows)) =>
           /\ ret2.outcome = "ValueError"
           /\ ret2.value = NoFile /\ ret2.saved = NoFile /\ disk = ret.saved

C14_Witness ==
    /\ ret.outcome = "ValueError" /\ AugmentInputsPresent
    /\ ColumnLabel(args.roi) \in Range(args.local_csf_ts.columns)
    /\ Len(args.conf.rows) = 2 /\ Len(args.local_csf_ts.rows) = 1
    /\ args.save


UniqueColumns(df) == Cardinality(Range(df.columns)) = Len(df.columns)

\* `after` is `before` with `series` under `name` and nothing else changed
AugmentedBy(before, after, name, series) ==
    /\ Range(after.columns) = Range(before.columns) \cup {name}
    /\ UniqueColumns(after)
    /\ Len(after.rows) = Len(before.rows)
    /\ Column(after, name) = series
    /\ \A c \in Range(before.columns) \ {name} :
          Column(after, c) = Column(before, c)

(* C15: after a successful add_local_csf_time_series_to_confound_file the   *)
(* returned table holds the new column's values under "{roi}_local_csf"     *)
(* (replacing a column of that name, so that a second call with the same    *)
(* name leaves only the last values), every other column keeps its name and *)
(* values, the rows keep their order and number, column names are unique,   *)
(* and the table written to save_path is the one returned.                  *)
C15_AugmentEffect ==
    /\ ret.outcome = "ok" =>
          /\ AugmentedBy(args.conf, ret.value, ColumnLabel(args.roi),
                         Column(args.local_csf_ts, ColumnLabel(args.roi)))
          /\ ret.saved = IF args.save THEN ret.value ELSE NoFile
    /\ ret2.outcome = "ok" =>
          /\ AugmentedBy(args.conf, ret2.value, ColumnLabel(args.roi),
                         Column(args.local_csf_ts2, ColumnLabel(args.roi)))
          /\ ret2.value.columns = ret.value.columns
          /\ disk = IF args.save THEN ret2.value ELSE NoFile

C15_Witness ==
    /\ ret.outcome = "ok" /\ ret2.outcome = "ok" /\ args.save
    /\ args.conf.columns = <<ColumnLabel(args.roi), "X">>
    /\ Len(args.conf.rows) = 2
    /\ Column(args.conf, "X") = <<0, One>>
    /\ Column(ret.value, ColumnLabel(args.roi)) = <<Fx(0, 20), Fx(0, 30)>>
    /\ Column(ret2.value, ColumnLabel(args.roi)) = <<Fx(0, 40), Fx(0, 40)>>


----------------------------------------------------------------------------
(* utils/func_timeseries.py: compute_functional_timeseries (clean).  The    *)
(* confound selection is [kind |-> "Default"], [kind |-> "None"] or         *)
(* [kind |-> "names", names |-> a sequence of column names].  The residuals *)
(* of nilearn's signal.clean are kept as the term of the call: the model    *)
(* follows which signals and which confound columns reach it, not the       *)
(* arithmetic of the regression.                                            *)

motion_cols == <<"X", "Y", "Z", "RotX", "RotY", "RotZ">>

\* lines 64-67: the selection after "Default" is replaced
ResolveConfoundVars(confound_vars, roi_name) ==
    IF confound_vars.kind = "Default"
    THEN [kind |-> "names",
          names |-> Append(motion_cols, ColumnLabel(roi_name))]
    ELSE confound_vars

\* only the first absent name, where the code collects all of them
MissingFirstOnly(names, conf_df) ==
    LET absent == SelectSeq(names, LAMBDA c : c \notin Range(conf_df.columns))
    IN  IF absent = <<>> THEN <<>> ELSE <<Head(absent)>>

\* [c for c in confound_vars if c not in conf_df.columns]
Missing(names, conf_df) ==
    SelectSeq(names, LAMBDA c : c \notin Range(conf_df.columns))

RaiseMissing(missing) ==
    [outcome |-> "ValueError", value |-> NoFile, saved |-> NoFile,
     missing |-> missing]

\* conf_df[confound_vars].values
ConfoundMatrix(conf_df, names) ==
    [i \in DOMAIN conf_df.rows |->
        [k \in DOMAIN names |-> Column(conf_df, names[k])[i]]]

SignalClean(signals, confounds) ==
    [call |-> "signal.clean", signals |-> signals, confounds |-> confounds,
     standardize |-> FALSE]

ComputeFunctionalTimeseries(func, binary_roi, conf, roi_name, confound_vars, save_path) ==
    IF ~func.exists THEN Raise("FileNotFoundError")
    ELSE IF ~binary_roi.exists THEN Raise("FileNotFoundError")
    ELSE LET binary_roi_nii ==
                 IF binary_roi.shape # func.shape
                 THEN ResampleImg(binary_roi, func.affine, func.shape,
                                  "nearest")
                 ELSE binary_roi
             func_nii_masked == NiftiMaskerFitTransform(binary_roi_nii, func)
             resolved == ResolveConfoundVars(confound_vars, roi_name)
             missing == Missing(resolved.names, conf)
             confound_matrix ==
                 IF resolved.kind = "None" THEN "None"
                 ELSE ConfoundMatrix(conf, resolved.names)
             corrected_ts_np ==
                 SignalClean(func_nii_masked.signals, confound_matrix)
             mean_corrected_ts_np ==
                 [call |-> "np.mean", axis |-> 1, of |-> corrected_ts_np]
         IN  IF func_nii_masked.error # "none"
             THEN Raise(func_nii_masked.error)
             ELSE IF ~conf.exists THEN Raise("FileNotFoundError")
             ELSE IF resolved.kind # "None" /\ missing # <<>>
             THEN RaiseMissing(missing)
             ELSE IF resolved.kind # "None" /\ Len(conf.rows) # Frames
             THEN Raise("ValueError")
             ELSE [outcome |-> "ok",
                   value |-> <<corrected_ts_np, mean_corrected_ts_np>>,
                   saved |-> IF save_path
                             THEN [exists |-> TRUE,
                                   columns |-> <<"mean_time_series">>,
                                   values |-> mean_corrected_ts_np]
                             ELSE NoFile]

CleanColumns ==
    {SelectSeq(Append(Append(motion_cols, ColumnLabel("R_amygdala")), "FD"),
               LAMBDA c : c \in S) :
        S \in SUBSET (Range(motion_cols) \cup {ColumnLabel("R_amygdala"), "FD"})}

CleanConfTables ==
    {Table(c, [t \in 1..n |-> [k \in DOMAIN c |-> 0]]) :
        c \in CleanColumns \ {<<>>}, n \in {Frames, Frames + 1}}

ExplicitNames ==
    UNION {[1..n -> {"X", "FD", "GS"}] : n \in 1..2}

ConfoundSelections ==
    {[kind |-> "Default"], [kind |-> "None"]}
        \cup {[kind |-> "names", names |-> s] : s \in ExplicitNames}

CleanFunc == Vol(<<ExtX, 1, 1>>, 0, [v \in Voxels(<<ExtX, 1, 1>>) |->
                                        [t \in 1..Frames |-> One]])

CleanMasks ==
    {Vol(<<x, 1, 1>>, 0, [v \in Voxels(<<x, 1, 1>>) |-> b]) :
        x \in 1..ExtX, b \in {0, One}}

InitClean ==
    /\ args \in [func : {CleanFunc, NoFile},
                 binary_roi : CleanMasks \cup {NoFile},
                 conf : CleanConfTables \cup {NoFile},
                 roi_name : {"R_amygdala"},
                 confound_vars : ConfoundSelections, save : BOOLEAN]
    /\ ret = NoCall /\ ret2 = NoCall /\ disk = NoFile
    /\ IdleDriver

Clean ==
    /\ ret.outcome = "none"
    /\ ret' = ComputeFunctionalTimeseries(
                  args.func, args.binary_roi, args.conf, args.roi_name,
                  args.confound_vars, args.save)
    /\ disk' = ret'.saved
    /\ UNCHANGED <<args, ret2>>
    /\ UNCHANGED drvVars

NextClean == Clean

SpecClean == InitClean /\ [][NextClean]_vars

\* the names the selection stands for: the six motion columns and the ROI's
\* local CSF column for Default, the given names for an explicit selection
SelectedNames ==
    IF args.confound_vars.kind = "Default"
    THEN {"X", "Y", "Z", "RotX", "RotY", "RotZ", args.roi_name \o "_local_csf"}
    ELSE IF args.confound_vars.kind = "names"
    THEN Range(args.confound_vars.names)
    ELSE {}

AbsentNames == SelectedNames \ Range(args.conf.columns)

\* the call got as far as reading the confound table
ConfoundsRead ==
    /\ ret.outcome # "none" /\ args.conf.exists
    /\ ret \notin {Raise("FileNotFoundError")}
    /\ IF args.binary_roi.exists
       THEN \E v \in DOMAIN args.binary_roi.data :
               /\ args.binary_roi.data[v] # 0
               /\ v \in Voxels(args.func.shape)
       ELSE FALSE

(* C16: compute_functional_timeseries resolves the confound selection as    *)
(* Default = X, Y, Z, RotX, RotY, RotZ and "{roi}_local_csf", an explicit   *)
(* selection = exactly its names, None = no regression; when a resolved     *)
(* column is absent from the confound table it raises a ValueError whose    *)
(* message lists every absent name, and with None it never raises for an    *)
(* absent column.                                                           *)
C16_ConfoundSelection ==
    /\ (ConfoundsRead /\ AbsentNames # {}) =>
          /\ ret.outcome = "ValueError" /\ "missing" \in DOMAIN ret
          /\ Range(ret.missing) = AbsentNames
    /\ (ConfoundsRead /\ AbsentNames = {}) => "missing" \notin DOMAIN ret
    /\ (ConfoundsRead /\ args.confound_vars.kind = "None") =>
          /\ ret.outcome = "ok"
          /\ ret.value[1].confounds = "None"
    /\ (ret.outcome = "ok" /\ args.confound_vars.kind # "None") =>
          /\ SelectedNames \subseteq Range(args.conf.columns)
          /\ ret.value[1].confounds =
                ConfoundMatrix(args.conf,
                    IF args.confound_vars.kind = "Default"
                    THEN <<"X", "Y", "Z", "RotX", "RotY", "RotZ",
                           args.roi_name \o "_local_csf">>
                    ELSE args.confound_vars.names)

C16_Witness ==
    /\ ConfoundsRead /\ args.confound_vars.kind = "Default"
    /\ Cardinality(AbsentNames) >= 2
    /\ args.roi_name \o "_local_csf" \in AbsentNames
    /\ ret.outcome = "ValueError"


----------------------------------------------------------------------------
(* The seven stage functions together: one of them is called, on inputs of  *)
(* its own; the fields of args tell which.                                  *)

InitStages ==
    \/ InitResample \/ InitBinarize \/ InitDilate \/ InitDerive
    \/ InitExtract \/ InitAugment \/ InitClean

NextStages ==
    \/ "template" \in DOMAIN args /\ Resample
    \/ "thr" \in DOMAIN args /\ "vol" \in DOMAIN args /\ Binarize
    \/ "thr" \in DOMAIN args /\ "vol" \in DOMAIN args /\ BinarizeAgain
    \/ "iterations" \in DOMAIN args /\ Dilate
    \/ "iterations" \in DOMAIN args /\ DilateSecond
    \/ "csf" \in DOMAIN args /\ Derive
    \/ "func" \in DOMAIN args /\ "local_csf" \in DOMAIN args /\ Extract
    \/ "local_csf_ts" \in DOMAIN args /\ Augment
    \/ "local_csf_ts" \in DOMAIN args /\ AugmentAgain
    \/ "confound_vars" \in DOMAIN args /\ Clean

SpecStages == InitStages /\ [][NextStages]_vars

Raised(r) == r.outcome \notin {"none", "ok"}

(* C17: whenever a stage function raises (a missing input, a threshold      *)
(* outside [0,1], a non-binary mask given to dilate, an empty local mask, a *)
(* row-count mismatch, a missing confound column) it returns nothing and    *)
(* has written nothing: the file at its save path is as it was before.      *)
C17_FailFastNoPartialOutput ==
    /\ Raised(ret) =>
          ret.value = NoFile /\ ret.saved = NoFile /\ disk = NoFile
    /\ Raised(ret2) =>
          ret2.value = NoFile /\ ret2.saved = NoFile /\ disk = ret.saved

\* derive raises for an empty local mask, with a save path given and all
\* three inputs present on one shape
C17_Witness ==
    /\ "csf" \in DOMAIN args /\ args.save
    /\ args.csf.exists /\ args.roi.exists /\ args.dil.exists
    /\ args.roi.shape = args.csf.shape /\ args.dil.shape = args.csf.shape
    /\ \E v \in DOMAIN args.dil.data : args.dil.data[v] # 0
    /\ ret.outcome = "ValueError"


====
